---- MODULE Spec2Model ----
(***************************************************************************)
(* A model of the medicine voice assistant: the RAG module                 *)
(* (src/llm_module.py) and the menu loop that drives it (src/main.py).     *)
(*                                                                         *)
(* Python strings are sequences of tokens.  A token is one character, or   *)
(* one fixed template text of the source taken as a unit (a label, an      *)
(* instruction sentence).  Python values are records [kind, s]: kind is    *)
(* "str" (s holds the tokens), "none" (None) or "absent" (a dictionary key *)
(* that is not there).                                                     *)
(***************************************************************************)
EXTENDS Naturals, Sequences, FiniteSets, TLC

VARIABLES
    \* ---- _format_medicine_data and the loop body of _load_data, applied to
    \* ---- one record
    medicine,       \* the record handed to the formatter: key -> value
    source_type,    \* "permit" or "overview"
    formatted,      \* the formatter's return value, "pending" before the call
    record_docs,    \* the document list after the loop body ran on the record
    \* ---- _enhance_question, applied to one question
    question,       \* the raw question
    ocr_arg,        \* the ocr_context argument
    enhanced,       \* the enhanced prompt, "pending" before the call
    \* ---- the environment of LLMModule
    api_key,        \* os.getenv("OPENAI_API_KEY"): "unset", "empty" or "set"
    e_file,         \* e_data.json on disk
    n_file,         \* n_data.json on disk
    index_dir,      \* ./medicine_index on disk: [exists, docs]
    \* ---- LLMModule
    llm_state,      \* "unconstructed", "ready", or "failed" (__init__ raised)
    index,          \* self.index: NoIndex or [docs]
    query_engine,   \* self.query_engine: NoEngine or [index]
    llm_client,     \* self.llm: "none" before it is assigned, then "client"
    documents,      \* what _load_data returned in this run
    opened,         \* the source files opened for reading in this run
    persist_count,  \* calls of storage_context.persist in this run
    init_path,      \* which branch _build_index took: "none", "load", "build"
    run_no,         \* the number of the current run of the program
    last_query,     \* the last call of query, NoQuery or its arguments, the
                    \* collaborator it called and what it did: the last of
                    \* the run, or of the current round when the menu loop runs
    \* ---- main() and MedicineAssistant
    pc,             \* where the program is: "start", a place of the menu loop,
                    \* "pause" (the except Exception clause of run), or an end
    command,        \* the last command read by run
    ocr_context,    \* self.ocr_context
    user_question,  \* handle_medicine_query's local user_question
    answer,         \* handle_medicine_query's local answer
    last_spoken,    \* the last text voice.speak played in the current round
    exit_cause,     \* why the loop ended: "none", "quit", "interrupt"
    last_event,     \* "recovered" when the menu follows a caught exception
    \* ---- OCRModule, applied to one image
    ocr_call,       \* the image, the engine's results and the preprocessing
    ocr_return      \* what the two extraction methods gave, "pending" before

fmtVars == <<medicine, source_type, formatted, record_docs>>
enhVars == <<question, ocr_arg, enhanced>>
diskVars == <<api_key, e_file, n_file, index_dir>>
llmVars == <<llm_state, index, query_engine, llm_client, documents, opened,
             persist_count, init_path, run_no, last_query>>
mainVars == <<pc, command, ocr_context, user_question, answer, last_spoken,
              exit_cause, last_event>>
ocrVars == <<ocr_call, ocr_return>>
vars == <<fmtVars, enhVars, diskVars, llmVars, mainVars, ocrVars>>

-----------------------------------------------------------------------------
(* Python values *)

None == [kind |-> "none", s |-> <<>>]
Absent == [kind |-> "absent", s |-> <<>>]
Pending == [kind |-> "pending", s |-> <<>>]
Str(s) == [kind |-> "str", s |-> s]

\* bool(v) for the values of the model: None and "" are falsy
Truthy(v) == v.kind = "str" /\ v.s # <<>>

\* dict.get(key): None when the key is absent
Get(d, key) == IF d[key].kind = "absent" THEN None ELSE d[key]

NL == "\n"

RECURSIVE Join(_, _)
\* sep.join(parts)
Join(parts, sep) ==
    IF parts = <<>> THEN <<>>
    ELSE IF Len(parts) = 1 THEN Head(parts)
    ELSE Head(parts) \o <<sep>> \o Join(Tail(parts), sep)

RECURSIVE Split(_, _)
\* s.split(sep): the maximal pieces of s between occurrences of sep
Split(s, sep) ==
    IF \A i \in 1..Len(s) : s[i] # sep THEN <<s>>
    ELSE LET i == CHOOSE j \in 1..Len(s) :
                      s[j] = sep /\ \A k \in 1..(j - 1) : s[k] # sep
         IN  <<SubSeq(s, 1, i - 1)>> \o Split(SubSeq(s, i + 1, Len(s)), sep)

\* needle in s (substring test)
Contains(s, needle) ==
    \E i \in 0..(Len(s) - Len(needle)) :
        \A k \in 1..Len(needle) : s[i + k] = needle[k]

-----------------------------------------------------------------------------
(* LLMModule._format_medicine_data *)

\* The display labels of src/llm_module.py:153-161 and :171-178 are Korean
\* texts; each is one token here, written LABEL_<romanised text>.

PermitFields == <<
    [field |-> "itemName",            label |-> "LABEL_uiyakpummyeong"],
    [field |-> "entpName",            label |-> "LABEL_jejosa"],
    [field |-> "efcyQesitm",          label |-> "LABEL_hyoneunghyogwa"],
    [field |-> "useMethodQesitm",     label |-> "LABEL_yongbeopyongryang"],
    [field |-> "atpnWarnQesitm",      label |-> "LABEL_juuisahang_gyeonggo"],
    [field |-> "atpnQesitm",          label |-> "LABEL_juuisahang"],
    [field |-> "intrcQesitm",         label |-> "LABEL_sanghojagyong"],
    [field |-> "seQesitm",            label |-> "LABEL_bujagyong"],
    [field |-> "depositMethodQesitm", label |-> "LABEL_bogwanbangbeop"] >>

OverviewFields == <<
    [field_names |-> <<"item_name", "ITEM_NAME">>,       label |-> "LABEL_uiyakpummyeong"],
    [field_names |-> <<"entp_name", "ENTP_NAME">>,       label |-> "LABEL_jejosa"],
    [field_names |-> <<"chart", "CHART">>,               label |-> "LABEL_seongsang"],
    [field_names |-> <<"drug_shape", "DRUG_SHAPE">>,     label |-> "LABEL_uiyakpum_moyang"],
    [field_names |-> <<"color_class1", "COLOR_CLASS1">>, label |-> "LABEL_saeksang_ap"],
    [field_names |-> <<"color_class2", "COLOR_CLASS2">>, label |-> "LABEL_saeksang_dwi"],
    [field_names |-> <<"class_name", "CLASS_NAME">>,     label |-> "LABEL_yakpum_bunryu"],
    [field_names |-> <<"etc_otc_name", "ETC_OTC_NAME">>, label |-> "LABEL_jeonmun_ilban"] >>

PermitKeys == {PermitFields[i].field : i \in 1..Len(PermitFields)}
OverviewKeys ==
    UNION {{OverviewFields[i].field_names[j] : j \in 1..Len(OverviewFields[i].field_names)} :
           i \in 1..Len(OverviewFields)}
SchemaKeys(st) == IF st = "permit" THEN PermitKeys ELSE OverviewKeys

\* f"{label}: {medicine[field]}"
LabelLine(label, value) == <<label, ":", " ">> \o value.s

RECURSIVE PermitParts_key_present(_, _)
\* mutant: tests that the key holds a string rather than that its value is
\* truthy, so an empty string is rendered as an empty label
PermitParts_key_present(m, i) ==
    IF i > Len(PermitFields) THEN <<>>
    ELSE IF m[PermitFields[i].field].kind = "str"
         THEN <<LabelLine(PermitFields[i].label, m[PermitFields[i].field])>>
              \o PermitParts_key_present(m, i + 1)
         ELSE PermitParts_key_present(m, i + 1)

RECURSIVE PermitParts(_, _)
\* the permit branch's loop over fields, from entry i on
PermitParts(m, i) ==
    IF i > Len(PermitFields) THEN <<>>
    ELSE IF Truthy(Get(m, PermitFields[i].field))
         THEN <<LabelLine(PermitFields[i].label, m[PermitFields[i].field])>>
              \o PermitParts(m, i + 1)
         ELSE PermitParts(m, i + 1)

RECURSIVE FirstCandidate_no_break(_, _, _)
\* mutant: the inner loop without its break
FirstCandidate_no_break(m, i, j) ==
    IF j > Len(OverviewFields[i].field_names) THEN <<>>
    ELSE IF Truthy(Get(m, OverviewFields[i].field_names[j]))
         THEN <<LabelLine(OverviewFields[i].label, m[OverviewFields[i].field_names[j]])>>
              \o FirstCandidate_no_break(m, i, j + 1)
         ELSE FirstCandidate_no_break(m, i, j + 1)

RECURSIVE FirstCandidate(_, _, _)
\* the inner loop over field_names: the first candidate key with a truthy
\* value appends one part and breaks
FirstCandidate(m, i, j) ==
    IF j > Len(OverviewFields[i].field_names) THEN <<>>
    ELSE IF Truthy(Get(m, OverviewFields[i].field_names[j]))
         THEN <<LabelLine(OverviewFields[i].label, m[OverviewFields[i].field_names[j]])>>
         ELSE FirstCandidate(m, i, j + 1)

RECURSIVE OverviewParts(_, _)
\* the overview branch's loop over fields, from entry i on
OverviewParts(m, i) ==
    IF i > Len(OverviewFields) THEN <<>>
    ELSE FirstCandidate(m, i, 1) \o OverviewParts(m, i + 1)

\* text_parts at the return statement
text_parts(m, st) ==
    IF st = "permit" THEN PermitParts(m, 1) ELSE OverviewParts(m, 1)

\* mutant: joins unconditionally, so an empty list gives "" and not None
format_medicine_data_always_joins(m, st) == Str(Join(text_parts(m, st), NL))

\* "\n".join(text_parts) if text_parts else None
format_medicine_data(m, st) ==
    IF text_parts(m, st) # <<>> THEN Str(Join(text_parts(m, st), NL)) ELSE None

-----------------------------------------------------------------------------
(* LLMModule._load_data: the body of the loop over a file's records *)

ItemNameMax == 100

\* s[:n]
Truncate(s, n) == IF Len(s) <= n THEN s ELSE SubSeq(s, 1, n)

\* the expression whose [:100] slice becomes metadata["item_name"]:
\* medicine.get("itemName", "") for a permit record,
\* medicine.get("item_name") or medicine.get("ITEM_NAME", "") for an overview
\* record.  A key that is present with a null value yields None.
item_name_expr(m, st) ==
    IF st = "permit"
    THEN IF m["itemName"].kind = "absent" THEN Str(<<>>) ELSE m["itemName"]
    ELSE IF Truthy(Get(m, "item_name")) THEN m["item_name"]
         ELSE IF m["ITEM_NAME"].kind = "absent" THEN Str(<<>>) ELSE m["ITEM_NAME"]

\* Document(text=text, metadata={"source": ..., "item_name": ...[:100]})
Document(text, st, name) ==
    [text |-> text, source |-> st, item_name |-> Truncate(name.s, ItemNameMax)]

\* One pass of the loop body on record m: the list afterwards, and whether
\* the body raised (slicing None raises TypeError, which ends the loop).
process_medicine(docs, m, st) ==
    LET text == format_medicine_data(m, st)
    IN  IF ~Truthy(text) THEN [documents |-> docs, raised |-> FALSE]
        ELSE IF item_name_expr(m, st).kind # "str"
             THEN [documents |-> docs, raised |-> TRUE]
             ELSE [documents |->
                      Append(docs, Document(text.s, st, item_name_expr(m, st))),
                   raised |-> FALSE]

-----------------------------------------------------------------------------
(* LLMModule._enhance_question *)

\* The Korean keywords, one token per syllable (one Python character each):
\* bu-jak-yong "side effect", yong-beop "usage", yong-ryang "dosage",
\* sang-ho-jak-yong "interaction", gat-i "together".
KW_side_effect == <<"bu", "jak", "yong">>
KW_usage == <<"yong", "beop">>
KW_dosage == <<"yong", "ryang">>
KW_interaction == <<"sang", "ho", "jak", "yong">>
KW_together == <<"gat", "i">>

\* The fixed texts of the template, each one token.
TEXT_preamble == "TEXT_preamble"
TEXT_ocr_intro == "TEXT_ocr_intro"
TEXT_question_label == "TEXT_question_label"
TEXT_answer_style == "TEXT_answer_style"
TEXT_focus_side_effect == "TEXT_focus_side_effect"
TEXT_focus_dosage == "TEXT_focus_dosage"
TEXT_focus_interaction == "TEXT_focus_interaction"

\* mutant: three independent ifs, every matching category is appended
category_suffix_all_matches(q) ==
    (IF Contains(q, KW_side_effect) THEN <<TEXT_focus_side_effect>> ELSE <<>>)
    \o (IF Contains(q, KW_usage) \/ Contains(q, KW_dosage)
        THEN <<TEXT_focus_dosage>> ELSE <<>>)
    \o (IF Contains(q, KW_interaction) \/ Contains(q, KW_together)
        THEN <<TEXT_focus_interaction>> ELSE <<>>)

\* the if / elif / elif chain on the raw question
category_suffix(q) ==
    IF Contains(q, KW_side_effect) THEN <<TEXT_focus_side_effect>>
    ELSE IF Contains(q, KW_usage) \/ Contains(q, KW_dosage) THEN <<TEXT_focus_dosage>>
    ELSE IF Contains(q, KW_interaction) \/ Contains(q, KW_together)
         THEN <<TEXT_focus_interaction>>
    ELSE <<>>

enhance_question(q, ctx) ==
    <<TEXT_preamble>>
    \o (IF Truthy(ctx) THEN <<TEXT_ocr_intro>> \o ctx.s \o <<NL, NL>> ELSE <<>>)
    \o <<TEXT_question_label>> \o q \o <<NL, NL>>
    \o <<TEXT_answer_style>>
    \o category_suffix(q)

-----------------------------------------------------------------------------
(* LLMModule._load_data *)

\* A source file is [kind, medicines]: "missing" (os.path.exists is false),
\* "malformed" (open or json.load raises), "notdict" (the JSON value is not
\* an object, so .get raises AttributeError), or "ok" with the list under
\* the key "medicines" (an absent key gives the empty list).
FileOf(kind, medicines) == [kind |-> kind, medicines |-> medicines]

RECURSIVE load_records(_, _, _, _)
\* the for loop over the file's records from position i on; an exception in
\* the body leaves the loop and is caught by the except clause around it
load_records(docs, medicines, i, st) ==
    IF i > Len(medicines) THEN docs
    ELSE LET r == process_medicine(docs, medicines[i], st)
         IN  IF r.raised THEN r.documents
             ELSE load_records(r.documents, medicines, i + 1, st)

\* one "if os.path.exists(path): try: ... except Exception" block
load_file(docs, file, st) ==
    IF file.kind = "ok" THEN load_records(docs, file.medicines, 1, st)
    ELSE docs

\* mutant: one try block around both files, so a failure of the first file
\* skips the second
load_data_one_try(ef, nf) ==
    IF ef.kind \in {"malformed", "notdict"} THEN <<>>
    ELSE load_file(load_file(<<>>, ef, "permit"), nf, "overview")

load_data(ef, nf) == load_file(load_file(<<>>, ef, "permit"), nf, "overview")

\* the files _load_data opens: those for which os.path.exists holds
opened_by_load(ef, nf) ==
    (IF ef.kind # "missing" THEN {"e_data.json"} ELSE {})
    \cup (IF nf.kind # "missing" THEN {"n_data.json"} ELSE {})

-----------------------------------------------------------------------------
(* LLMModule.__init__ and _build_index *)

NoIndex == [kind |-> "none", docs |-> <<>>]
IndexOf(docs) == [kind |-> "index", docs |-> docs]
NoEngine == [kind |-> "none", index |-> NoIndex]
\* _setup_query_engine: a RetrieverQueryEngine over self.index
EngineOf(ix) == [kind |-> "engine", index |-> ix]

\* mutant: _build_index without the call of _setup_query_engine
setup_after_build_never(ix) == NoEngine

\* "if self.index: self._setup_query_engine()"
setup_after_build(ix) == IF ix.kind = "index" THEN EngineOf(ix) ELSE NoEngine

\* "if documents:" in the build branch
has_documents(docs) == docs # <<>>

\* mutant: never finds the directory, so every run rebuilds
index_path_exists_never == FALSE

\* "if os.path.exists(index_path):"
index_path_exists == index_dir.exists

\* mutant: the key is tested with "is None"
api_key_missing_only_unset == api_key = "unset"

\* "if not self.api_key: raise ValueError"
api_key_missing == api_key # "set"

\* The constructor, _build_index included.  lib is what the index library
\* does when called: "ok", or "raises" (load_index_from_storage on a corrupt
\* directory, VectorStoreIndex.from_documents on an embedding failure).
LLMModuleInit(lib) ==
    /\ llm_state = "unconstructed"
    /\ IF api_key_missing
       THEN /\ llm_state' = "failed"
            /\ UNCHANGED <<index, query_engine, documents, opened, persist_count,
                           init_path, index_dir>>
       ELSE IF index_path_exists
       THEN /\ init_path' = "load"
            /\ UNCHANGED <<documents, opened, persist_count, index_dir>>
            /\ IF lib = "ok"
               THEN /\ index' = IndexOf(index_dir.docs)
                    /\ query_engine' = setup_after_build(IndexOf(index_dir.docs))
                    /\ llm_state' = "ready"
               ELSE /\ llm_state' = "failed"
                    /\ UNCHANGED <<index, query_engine>>
       ELSE /\ init_path' = "build"
            /\ documents' = load_data(e_file, n_file)
            /\ opened' = opened_by_load(e_file, n_file)
            /\ IF has_documents(load_data(e_file, n_file))
               THEN IF lib = "ok"
                    THEN /\ index' = IndexOf(load_data(e_file, n_file))
                         /\ index_dir' = [exists |-> TRUE,
                                          docs |-> load_data(e_file, n_file)]
                         /\ persist_count' = persist_count + 1
                         /\ query_engine' =
                                setup_after_build(IndexOf(load_data(e_file, n_file)))
                         /\ llm_state' = "ready"
                    ELSE /\ llm_state' = "failed"
                         /\ UNCHANGED <<index, query_engine, persist_count, index_dir>>
               ELSE /\ llm_state' = "ready"
                    /\ UNCHANGED <<index, query_engine, persist_count, index_dir>>
    /\ llm_client' = IF api_key_missing THEN llm_client ELSE "client"
    /\ UNCHANGED <<api_key, e_file, n_file, run_no, last_query>>

-----------------------------------------------------------------------------
(* LLMModule.query *)

TEXT_fallback == "TEXT_fallback"   \* "... no relevant information found"
TEXT_apology == "TEXT_apology"     \* "... an error occurred while processing"

Whitespace == {" ", NL, "TAB"}

RECURSIVE LStrip(_)
LStrip(s) == IF s # <<>> /\ Head(s) \in Whitespace THEN LStrip(Tail(s)) ELSE s

RECURSIVE RStrip(_)
RStrip(s) ==
    IF s # <<>> /\ s[Len(s)] \in Whitespace THEN RStrip(SubSeq(s, 1, Len(s) - 1)) ELSE s

\* s.strip()
Strip(s) == LStrip(RStrip(s))

Raises == [kind |-> "raises", s |-> <<>>]

\* mutant: always goes to the query engine
query_target_always_engine(engine) == "query_engine"

\* "if self.query_engine:" picks the collaborator
query_target(engine) == IF engine.kind = "engine" THEN "query_engine" ELSE "llm.complete"

\* mutant: tests "not answer" only
substitute_empty_no_strip(ans) == IF ans = <<>> THEN <<TEXT_fallback>> ELSE ans

\* "if not answer or not answer.strip(): answer = <fallback>"
substitute_empty(ans) ==
    IF ans = <<>> \/ Strip(ans) = <<>> THEN <<TEXT_fallback>> ELSE ans

\* mutant: no except clause, the collaborator's exception leaves query
query_outcome_propagates(reply) ==
    IF reply.kind = "raises"
    THEN [kind |-> "raised", value |-> <<>>]
    ELSE [kind |-> "returned", value |-> substitute_empty(reply.s)]

\* What the try / except of query makes of the collaborator's reply: reply
\* is Raises or str(response)
query_outcome(reply) ==
    IF reply.kind = "raises"
    THEN [kind |-> "returned", value |-> <<TEXT_apology>>]
    ELSE [kind |-> "returned", value |-> substitute_empty(reply.s)]

\* query(question, ocr_context) with the collaborator replying reply
query(q, ctx, reply) ==
    [question |-> q,
     ocr_context |-> ctx,
     target |-> query_target(query_engine),
     prompt |-> enhance_question(q, ctx),
     reply |-> reply,
     outcome |-> query_outcome(reply)]

\* last_query is <<>> before the first call and <<query(...)>> after one
NoQuery == <<>>

\* A call of query on the constructed module.
Query(q, ctx, reply) ==
    /\ llm_state = "ready"
    /\ last_query' = <<query(q, ctx, reply)>>
    /\ UNCHANGED <<llm_state, index, query_engine, llm_client, documents, opened,
                   persist_count, init_path, run_no>>
    /\ UNCHANGED diskVars

-----------------------------------------------------------------------------
(* OCRModule *)

ConfidenceCutoffPct == 30   \* "confidence > 0.3", confidences in percent
DefaultConfidencePct == 100 \* "else 1.0"

\* What ocr_model.predict returns: shape is "raises" (predict raised),
\* "empty" (not a non-empty list), "nondict" (first element is no dict),
\* "nokey" (a dict without rec_texts) or "dict" (a dict with rec_texts and
\* rec_scores).
EngineResult(shape, texts, scores) ==
    [shape |-> shape, rec_texts |-> texts, rec_scores |-> scores]

\* a returned pair (text, details), and the value of a function that ends
\* without a return statement
Pair(text, details) == [shape |-> "pair", text |-> text, details |-> details]
BareNone == [shape |-> "bare_none", text |-> None, details |-> <<>>]
NonePair == Pair(None, <<>>)

RECURSIVE used_regions(_, _, _)
\* the loop over rec_texts from position i on: the regions that are kept
used_regions(texts, scores, i) ==
    IF i > Len(texts) THEN <<>>
    ELSE LET confidence == IF i <= Len(scores) THEN scores[i] ELSE DefaultConfidencePct
             text == Strip(texts[i].s)
         IN  IF Truthy(texts[i]) /\ text # <<>> /\ confidence > ConfidenceCutoffPct
             THEN <<[text |-> text, confidence |-> confidence]>>
                  \o used_regions(texts, scores, i + 1)
             ELSE used_regions(texts, scores, i + 1)

extract_text_from_image(img_exists, result) ==
    IF ~img_exists THEN NonePair
    ELSE IF result.shape # "dict" THEN NonePair
    ELSE IF result.rec_texts = <<>> THEN BareNone
    ELSE LET regions == used_regions(result.rec_texts, result.rec_scores, 1)
         IN  IF regions # <<>>
             THEN Pair(Str(Join([k \in 1..Len(regions) |-> regions[k].text], " ")),
                       regions)
             ELSE NonePair

\* "text, details = ..." on a value that is no pair raises TypeError
Unpacks(r) == r.shape = "pair"

RaisedResult == [shape |-> "raised", text |-> None, details |-> <<>>]

\* first is the engine's result on the image, preprocessed says whether
\* preprocess_image gave an image, second is the engine's result on the
\* preprocessed copy
extract_text_with_preprocessing(img_exists, first, preprocessed, second) ==
    LET r1 == extract_text_from_image(img_exists, first)
        r2 == extract_text_from_image(TRUE, second)
    IN  IF ~Unpacks(r1) THEN RaisedResult
        ELSE IF Truthy(r1.text) /\ Strip(r1.text.s) # <<>> THEN r1
        ELSE IF preprocessed /\ Unpacks(r2) THEN r2
        ELSE NonePair

TEXT_ocr_header == "TEXT_ocr_header"
TEXT_ocr_footer == "TEXT_ocr_footer"

format_for_llm(ocr_text) ==
    IF ~Truthy(ocr_text) THEN None
    ELSE IF Strip(ocr_text.s) = <<>> THEN None
    ELSE Str(<<TEXT_ocr_header, NL>> \o Strip(ocr_text.s) \o <<NL, NL, TEXT_ocr_footer>>)

-----------------------------------------------------------------------------
(* VoiceModule, as far as the menu loop sees it *)

\* speak(text): an empty or blank text is not played; every failure of the
\* speech service is caught inside speak
spoken_after(before, text) ==
    IF text = <<>> \/ Strip(text) = <<>> THEN before ELSE text

MSG_farewell == <<"MSG_farewell">>
MSG_greeting == <<"MSG_greeting">>
MSG_storage == <<"MSG_storage">>
MSG_bad_choice == <<"MSG_bad_choice">>
MSG_ocr_prompt == <<"MSG_ocr_prompt">>
MSG_question_prompt == <<"MSG_question_prompt">>
MSG_no_input == <<"MSG_no_input">>

-----------------------------------------------------------------------------
(* main() and MedicineAssistant *)

\* the places of the body of "while True: try:"
TryPcs == {"menu", "interaction", "query_ocr", "query_listen", "query_llm", "query_speak"}
LoopPcs == TryPcs \cup {"pause"}

\* mutant: run without its "except Exception" clause
run_on_exception_uncaught == [pc |-> "exited", exit_cause |-> "exception"]

\* "except Exception as e: ... time.sleep(2)": the loop goes on
run_on_exception == [pc |-> "pause", exit_cause |-> "none"]

\* "except KeyboardInterrupt: ... break"
run_on_interrupt == [pc |-> "exited", exit_cause |-> "interrupt"]

\* main(): check_requirements, then MedicineAssistant().  go_on is the
\* user's answer when a requirement is missing, voice_ok and ocr_ok say
\* whether VoiceModule() and OCRModule() construct, lib is the index library.
Startup(image_exists, go_on, voice_ok, ocr_ok, lib) ==
    /\ pc = "start"
    /\ IF ~(api_key # "unset" /\ e_file.kind # "missing" /\ n_file.kind # "missing"
            /\ image_exists) /\ ~go_on
       THEN /\ pc' = "declined"
            /\ UNCHANGED <<diskVars, llmVars>>
       ELSE IF ~voice_ok \/ ~ocr_ok
       THEN /\ pc' = "fatal"
            /\ UNCHANGED <<diskVars, llmVars>>
       ELSE /\ LLMModuleInit(lib)
            /\ pc' = IF llm_state' = "ready" THEN "menu" ELSE "fatal"
    /\ UNCHANGED <<command, ocr_context, user_question, answer, last_spoken,
                   exit_cause, last_event>>

\* run: show_menu, read the command, and the branch that needs no input
Menu(cmd) ==
    /\ pc = "menu"
    /\ command' = cmd
    /\ last_event' = "none"
    /\ last_query' = NoQuery
    /\ IF cmd = "Q"
       THEN /\ last_spoken' = spoken_after(<<>>, MSG_farewell)
            /\ pc' = "exited"
            /\ exit_cause' = "quit"
       ELSE /\ pc' = IF cmd = "S" THEN "interaction" ELSE "menu"
            /\ last_spoken' = <<>>
            /\ UNCHANGED exit_cause
    /\ UNCHANGED <<ocr_context, user_question, answer, diskVars>>
    /\ UNCHANGED <<llm_state, index, query_engine, llm_client, documents, opened,
                   persist_count, init_path, run_no>>

\* start_voice_interaction up to the call of handle_medicine_query
Interaction(choice) ==
    /\ pc = "interaction"
    /\ IF choice = "1"
       THEN /\ last_spoken' = spoken_after(spoken_after(last_spoken, MSG_greeting), MSG_storage)
            /\ pc' = "menu"
       ELSE IF choice = "2"
       THEN /\ last_spoken' = spoken_after(last_spoken, MSG_greeting)
            /\ pc' = "query_ocr"
       ELSE /\ last_spoken' = spoken_after(spoken_after(last_spoken, MSG_greeting), MSG_bad_choice)
            /\ pc' = "menu"
    /\ UNCHANGED <<command, ocr_context, user_question, answer, exit_cause, last_event,
                   diskVars, llmVars>>

\* handle_medicine_query, lines 61-84: the prompt, the key press and the OCR
QueryOcr(user_input, image_exists, first, preprocessed, second) ==
    LET r == extract_text_with_preprocessing(image_exists, first, preprocessed, second)
    IN  /\ pc = "query_ocr"
        /\ last_spoken' = spoken_after(last_spoken, MSG_ocr_prompt)
        /\ IF user_input = "S"
           THEN IF image_exists
                THEN IF r.shape = "raised"
                     THEN /\ pc' = run_on_exception.pc
                          /\ exit_cause' = run_on_exception.exit_cause
                          /\ UNCHANGED ocr_context
                     ELSE /\ ocr_context' = IF Truthy(r.text) THEN format_for_llm(r.text)
                                            ELSE None
                          /\ pc' = "query_listen"
                          /\ UNCHANGED exit_cause
                ELSE /\ ocr_context' = None
                     /\ pc' = "query_listen"
                     /\ UNCHANGED exit_cause
           ELSE /\ pc' = "query_listen"
                /\ UNCHANGED <<ocr_context, exit_cause>>
        /\ UNCHANGED <<command, user_question, answer, last_event, diskVars, llmVars>>

\* _speech_to_text: the segments of the transcription joined and stripped,
\* None when nothing is left, when the audio file is gone or when the
\* transcription raises
speech_to_text(file_exists, transcript) ==
    IF ~file_exists THEN None
    ELSE IF transcript = Raises THEN None
    ELSE IF Strip(transcript.s) # <<>> THEN Str(Strip(transcript.s))
    ELSE None

\* listen: the recording, then _speech_to_text; KeyboardInterrupt and every
\* Exception of the recording are caught and give None
listen(recording) ==
    IF recording.kind # "recorded" THEN None
    ELSE speech_to_text(recording.file_exists, recording.transcript)

\* mutant: handle_medicine_query without its "if not user_question" return
no_question_never(heard) == FALSE

\* "if not user_question:"
no_question(heard) == ~Truthy(heard)

\* handle_medicine_query, lines 86-101: the prompt and voice.listen, which
\* returns the recognized text or None
QueryListen(heard) ==
    /\ pc = "query_listen"
    /\ IF no_question(heard)
       THEN /\ last_spoken' = spoken_after(spoken_after(last_spoken, MSG_question_prompt),
                                           MSG_no_input)
            /\ user_question' = None
            /\ pc' = "menu"
       ELSE /\ last_spoken' = spoken_after(last_spoken, MSG_question_prompt)
            /\ user_question' = heard
            /\ pc' = "query_llm"
    /\ UNCHANGED <<command, ocr_context, answer, exit_cause, last_event, diskVars, llmVars>>

\* handle_medicine_query, lines 103-105: the call of llm.query
QueryLLM(reply) ==
    /\ pc = "query_llm"
    /\ Query(user_question.s, ocr_context, reply)
    /\ IF query_outcome(reply).kind = "returned"
       THEN /\ answer' = Str(query_outcome(reply).value)
            /\ pc' = "query_speak"
            /\ UNCHANGED exit_cause
            /\ UNCHANGED user_question
       ELSE /\ pc' = run_on_exception.pc
            /\ exit_cause' = run_on_exception.exit_cause
            /\ user_question' = None
            /\ UNCHANGED answer
    /\ UNCHANGED <<command, ocr_context, last_spoken, last_event>>

\* handle_medicine_query, lines 107-118: the answer is spoken and the OCR
\* context is cleared
QuerySpeak ==
    /\ pc = "query_speak"
    /\ last_spoken' = spoken_after(last_spoken, answer.s)
    /\ ocr_context' = None
    /\ user_question' = None
    /\ answer' = None
    /\ pc' = "menu"
    /\ UNCHANGED <<command, exit_cause, last_event, diskVars, llmVars>>

\* An Exception leaves the body of the try statement: input() at the end of
\* its stream, print() on a closed or unencodable stream.
HandlerRaises ==
    /\ pc \in TryPcs
    /\ pc' = run_on_exception.pc
    /\ exit_cause' = run_on_exception.exit_cause
    /\ user_question' = None
    /\ answer' = None
    /\ UNCHANGED <<command, ocr_context, last_spoken, last_event, diskVars, llmVars>>

\* Ctrl-C while the body of the try statement runs
Interrupt ==
    /\ pc \in TryPcs
    /\ pc' = run_on_interrupt.pc
    /\ exit_cause' = run_on_interrupt.exit_cause
    /\ user_question' = None
    /\ answer' = None
    /\ UNCHANGED <<command, ocr_context, last_spoken, last_event, diskVars, llmVars>>

\* the except Exception clause: the message, time.sleep(2), the next round
Pause ==
    /\ pc = "pause"
    /\ pc' = "menu"
    /\ last_event' = "recovered"
    /\ UNCHANGED <<command, ocr_context, user_question, answer, last_spoken, exit_cause,
                   diskVars, llmVars>>

\* Ctrl-C during time.sleep(2): no clause of run catches it there, and main
\* catches Exception only, so the process ends
PauseInterrupted ==
    /\ pc = "pause"
    /\ pc' = "exited"
    /\ exit_cause' = "interrupt"
    /\ UNCHANGED <<command, ocr_context, user_question, answer, last_spoken, last_event,
                   diskVars, llmVars>>

-----------------------------------------------------------------------------
(* Bounds and input sets *)

MaxPopulated == 2   \* keys present in a record handed to the formatter
MaxWords == 3       \* words in a question handed to the enhancer
MaxRecords == 2     \* records in the two source files together
MaxRuns == 2        \* runs of the program over the same disk
MaxRegions == 2     \* recognized regions in one result of the OCR engine

\* values a present key may hold: null, "", and three non-empty strings, one
\* of them with a line break in it
PresentValues ==
    {None, Str(<<>>), Str(<<"a">>), Str(<<"b">>), Str(<<"c", NL, "d">>)}

\* the record over keys that holds a[k] under the keys of K and nothing else
RecordOf(keys, K, a) == [k \in keys |-> IF k \in K THEN a[k] ELSE Absent]

\* the sets of at most n keys
KeySets(keys, n) == {S \in SUBSET keys : Cardinality(S) <= n}

SeqsUpTo(S, n) == UNION {[1..k -> S] : k \in 0..n}

RECURSIVE Flatten(_)
Flatten(ss) == IF ss = <<>> THEN <<>> ELSE Head(ss) \o Flatten(Tail(ss))

Vocabulary ==
    {KW_side_effect, KW_usage, KW_dosage, KW_interaction, KW_together,
     <<"x">>, <<"bu", "jak">>, <<"yong">>}

\* the questions: up to n words of the vocabulary, written without spaces
Questions(n) == {Flatten(ws) : ws \in SeqsUpTo(Vocabulary, n)}

OcrContexts == {None, Str(<<>>), Str(<<"o">>), Str(KW_side_effect)}

\* the record pools of the source files
EmptyOf(keys) == [k \in keys |-> Absent]
PermitPool ==
    {[EmptyOf(PermitKeys) EXCEPT !["itemName"] = Str(<<>>), !["entpName"] = None],
     [EmptyOf(PermitKeys) EXCEPT !["itemName"] = Str(<<"T">>)],
     [EmptyOf(PermitKeys) EXCEPT !["itemName"] = None, !["efcyQesitm"] = Str(<<"e">>)]}
OverviewPool ==
    {EmptyOf(OverviewKeys),
     [EmptyOf(OverviewKeys) EXCEPT !["ITEM_NAME"] = Str(<<"T">>)],
     [EmptyOf(OverviewKeys) EXCEPT !["ITEM_NAME"] = None, !["chart"] = Str(<<"c">>)]}

Files(pool, n) ==
    {FileOf("missing", <<>>), FileOf("malformed", <<>>), FileOf("notdict", <<>>)}
    \cup {FileOf("ok", ms) : ms \in SeqsUpTo(pool, n)}

\* what an index directory left by an earlier run may hold
StaleDocs == <<Document(<<"LABEL_uiyakpummyeong", ":", " ", "old">>, "permit", Str(<<"old">>))>>

Replies ==
    {Raises, Str(<<>>), Str(<<" ">>), Str(<<NL, " ">>), Str(<<"a">>), Str(<<" ", "a", NL>>)}

-----------------------------------------------------------------------------
(* Specifications *)

FormatIdle ==
    /\ medicine = EmptyOf(PermitKeys)
    /\ source_type = "permit"
    /\ formatted = Pending
    /\ record_docs = [documents |-> <<>>, raised |-> FALSE]

EnhanceIdle ==
    /\ question = <<>>
    /\ ocr_arg = None
    /\ enhanced = Pending

LLMUnconstructed ==
    /\ llm_state = "unconstructed"
    /\ index = NoIndex
    /\ query_engine = NoEngine
    /\ llm_client = "none"
    /\ documents = <<>>
    /\ opened = {}
    /\ persist_count = 0
    /\ init_path = "none"
    /\ last_query = NoQuery

LLMIdle ==
    /\ api_key = "set"
    /\ e_file = FileOf("missing", <<>>)
    /\ n_file = FileOf("missing", <<>>)
    /\ index_dir = [exists |-> FALSE, docs |-> <<>>]
    /\ run_no = 1
    /\ LLMUnconstructed

MainIdle ==
    /\ pc = "start"
    /\ command = "none"
    /\ ocr_context = None
    /\ user_question = None
    /\ answer = None
    /\ last_spoken = <<>>
    /\ exit_cause = "none"
    /\ last_event = "none"

\* the two extraction methods before they are called
NotCalled ==
    [direct |-> [shape |-> "pending", text |-> None, details |-> <<>>],
     retried |-> [shape |-> "pending", text |-> None, details |-> <<>>]]

OcrIdle ==
    /\ ocr_call = [img_exists |-> FALSE, first |-> EngineResult("empty", <<>>, <<>>),
                   preprocessed |-> FALSE, second |-> EngineResult("empty", <<>>, <<>>)]
    /\ ocr_return = NotCalled

\* ---- the formatter on one record
FormatInit ==
    /\ source_type \in {"permit", "overview"}
    /\ \E K \in KeySets(SchemaKeys(source_type), MaxPopulated) :
          \E a \in [K -> PresentValues] :
             medicine = RecordOf(SchemaKeys(source_type), K, a)
    /\ formatted = Pending
    /\ record_docs = [documents |-> <<>>, raised |-> FALSE]
    /\ EnhanceIdle
    /\ LLMIdle
    /\ MainIdle
    /\ OcrIdle

FormatRecord ==
    /\ formatted.kind = "pending"
    /\ formatted' = format_medicine_data(medicine, source_type)
    /\ record_docs' = process_medicine(<<>>, medicine, source_type)
    /\ UNCHANGED <<medicine, source_type, enhVars, diskVars, llmVars, mainVars, ocrVars>>

SpecFormat == FormatInit /\ [][FormatRecord]_vars

\* ---- the enhancer on one question
EnhanceInit ==
    /\ question \in Questions(MaxWords)
    /\ ocr_arg \in OcrContexts
    /\ enhanced = Pending
    /\ FormatIdle
    /\ LLMIdle
    /\ MainIdle
    /\ OcrIdle

EnhanceQuestion ==
    /\ enhanced.kind = "pending"
    /\ enhanced' = Str(enhance_question(question, ocr_arg))
    /\ UNCHANGED <<question, ocr_arg, fmtVars, diskVars, llmVars, mainVars, ocrVars>>

SpecEnhance == EnhanceInit /\ [][EnhanceQuestion]_vars

\* ---- LLMModule: construction, queries, and the next run of the program
LLMInit ==
    /\ api_key \in {"unset", "empty", "set"}
    /\ e_file \in Files(PermitPool, MaxRecords)
    /\ n_file \in Files(OverviewPool, MaxRecords)
    /\ Len(e_file.medicines) + Len(n_file.medicines) <= MaxRecords
    /\ index_dir \in {[exists |-> FALSE, docs |-> <<>>],
                       [exists |-> TRUE, docs |-> StaleDocs]}
    /\ run_no = 1
    /\ LLMUnconstructed
    /\ FormatIdle
    /\ EnhanceIdle
    /\ MainIdle
    /\ OcrIdle

Construct ==
    /\ \E lib \in {"ok", "raises"} : LLMModuleInit(lib)
    /\ UNCHANGED <<fmtVars, enhVars, mainVars, ocrVars>>

Ask ==
    /\ \E q \in {<<"x">>, KW_side_effect}, ctx \in {None, Str(<<"o">>)}, reply \in Replies :
          Query(q, ctx, reply)
    /\ UNCHANGED <<fmtVars, enhVars, mainVars, ocrVars>>

\* The process ends and the program is started again on the same disk.
NextRun ==
    /\ llm_state \in {"ready", "failed"}
    /\ run_no < MaxRuns
    /\ run_no' = run_no + 1
    /\ llm_state' = "unconstructed"
    /\ index' = NoIndex
    /\ query_engine' = NoEngine
    /\ llm_client' = "none"
    /\ documents' = <<>>
    /\ opened' = {}
    /\ persist_count' = 0
    /\ init_path' = "none"
    /\ last_query' = NoQuery
    /\ UNCHANGED <<diskVars, fmtVars, enhVars, mainVars, ocrVars>>

LLMNext == Construct \/ Ask \/ NextRun

SpecLLM == LLMInit /\ [][LLMNext]_vars

\* ---- the whole program: main(), the construction and the menu loop
Commands == {"Q", "S", "other"}
Choices == {"1", "2", "other"}
\* what the microphone and the transcription may give
Recordings ==
    {[kind |-> "interrupted", file_exists |-> FALSE, transcript |-> Raises],
     [kind |-> "error", file_exists |-> FALSE, transcript |-> Raises],
     [kind |-> "recorded", file_exists |-> FALSE, transcript |-> Str(<<"x">>)]}
    \cup {[kind |-> "recorded", file_exists |-> TRUE, transcript |-> tr] :
             tr \in {Raises, Str(<<>>), Str(<<" ", NL>>), Str(<<" ", "x">>),
                     Str(KW_side_effect \o <<" ">>)}}
Heard == {listen(r) : r \in Recordings}
OcrResults ==
    {EngineResult("raises", <<>>, <<>>),
     EngineResult("empty", <<>>, <<>>),
     EngineResult("dict", <<>>, <<>>),
     EngineResult("dict", <<Str(<<"t">>)>>, <<90>>),
     EngineResult("dict", <<Str(<<"t">>)>>, <<ConfidenceCutoffPct>>)}

\* the source files of the whole-program runs: missing, unparsable, or one
\* record of the pool
LoopFiles(pool) ==
    {FileOf("missing", <<>>), FileOf("malformed", <<>>)}
    \cup {FileOf("ok", <<m>>) : m \in pool}

Init ==
    /\ api_key \in {"unset", "empty", "set"}
    /\ e_file \in LoopFiles(PermitPool)
    /\ n_file \in LoopFiles(OverviewPool)
    /\ index_dir \in {[exists |-> FALSE, docs |-> <<>>],
                       [exists |-> TRUE, docs |-> StaleDocs]}
    /\ run_no = 1
    /\ LLMUnconstructed
    /\ FormatIdle
    /\ EnhanceIdle
    /\ MainIdle
    /\ OcrIdle

Start ==
    /\ \E image_exists, go_on, voice_ok, ocr_ok \in BOOLEAN, lib \in {"ok", "raises"} :
          Startup(image_exists, go_on, voice_ok, ocr_ok, lib)
    /\ UNCHANGED <<fmtVars, enhVars, ocrVars>>

ReadCommand ==
    /\ \E cmd \in Commands : Menu(cmd)
    /\ UNCHANGED <<fmtVars, enhVars, ocrVars>>

ReadChoice ==
    /\ \E choice \in Choices : Interaction(choice)
    /\ UNCHANGED <<fmtVars, enhVars, ocrVars>>

ShowBox ==
    /\ \E user_input \in {"S", "other"}, image_exists, preprocessed \in BOOLEAN,
          first, second \in OcrResults :
          QueryOcr(user_input, image_exists, first, preprocessed, second)
    /\ UNCHANGED <<fmtVars, enhVars, ocrVars>>

Listen ==
    /\ \E heard \in Heard : QueryListen(heard)
    /\ UNCHANGED <<fmtVars, enhVars, ocrVars>>

AskLLM ==
    /\ \E reply \in Replies : QueryLLM(reply)
    /\ UNCHANGED <<fmtVars, enhVars, ocrVars>>

SpeakAnswer == QuerySpeak /\ UNCHANGED <<fmtVars, enhVars, ocrVars>>

Fail == HandlerRaises /\ UNCHANGED <<fmtVars, enhVars, ocrVars>>

CtrlC == Interrupt /\ UNCHANGED <<fmtVars, enhVars, ocrVars>>

Resume == Pause /\ UNCHANGED <<fmtVars, enhVars, ocrVars>>

CtrlCInPause == PauseInterrupted /\ UNCHANGED <<fmtVars, enhVars, ocrVars>>

Next ==
    \/ Start
    \/ ReadCommand
    \/ ReadChoice
    \/ ShowBox
    \/ Listen
    \/ AskLLM
    \/ SpeakAnswer
    \/ Fail
    \/ CtrlC
    \/ Resume
    \/ CtrlCInPause

Spec == Init /\ [][Next]_vars

\* ---- OCRModule on one image
\* the texts the engine may report for a region: null, "", blank, and two
\* texts, one of them with blanks around it
RegionTexts == {None, Str(<<>>), Str(<<" ">>), Str(<<"t">>), Str(<<" ", "u", " ">>)}

\* confidences in percent, around the cutoff
RegionScores == {ConfidenceCutoffPct - 1, ConfidenceCutoffPct, ConfidenceCutoffPct + 1}

\* the results of predict with at most n regions; rec_scores may be shorter
\* than rec_texts
EngineResults(n) ==
    {EngineResult("raises", <<>>, <<>>), EngineResult("empty", <<>>, <<>>),
     EngineResult("nondict", <<>>, <<>>), EngineResult("nokey", <<>>, <<>>)}
    \cup {EngineResult("dict", texts, scores) :
             texts \in SeqsUpTo(RegionTexts, n), scores \in SeqsUpTo(RegionScores, n)}

OcrInit ==
    /\ \E img_exists, preprocessed \in BOOLEAN :
          \E first \in EngineResults(MaxRegions), second \in OcrResults :
             /\ Len(first.rec_scores) <= Len(first.rec_texts)
             /\ ocr_call = [img_exists |-> img_exists, first |-> first,
                            preprocessed |-> preprocessed, second |-> second]
    /\ ocr_return = NotCalled
    /\ FormatIdle
    /\ EnhanceIdle
    /\ LLMIdle
    /\ MainIdle

\* both extraction methods are called on the image
ExtractText ==
    /\ ocr_return = NotCalled
    /\ ocr_return' =
          [direct |-> extract_text_from_image(ocr_call.img_exists, ocr_call.first),
           retried |-> extract_text_with_preprocessing(ocr_call.img_exists, ocr_call.first,
                                                       ocr_call.preprocessed, ocr_call.second)]
    /\ UNCHANGED <<ocr_call, fmtVars, enhVars, diskVars, llmVars, mainVars>>

SpecOcr == OcrInit /\ [][ExtractText]_vars

-----------------------------------------------------------------------------
(* What the formatter is expected to produce, stated from the record alone *)

IsPopulated(v) == v.kind = "str" /\ Len(v.s) >= 1

FieldCount(st) == IF st = "permit" THEN Len(PermitFields) ELSE Len(OverviewFields)
FieldLabel(st, i) == IF st = "permit" THEN PermitFields[i].label ELSE OverviewFields[i].label
CandidateKeys(st, i) ==
    IF st = "permit" THEN <<PermitFields[i].field>> ELSE OverviewFields[i].field_names

\* the logical fields of the record that have a populated key
PopulatedFields(m, st) ==
    {i \in 1..FieldCount(st) :
        \E j \in 1..Len(CandidateKeys(st, i)) : IsPopulated(m[CandidateKeys(st, i)[j]])}

\* the value of logical field i: that of its first populated candidate key
ChosenValue(m, st, i) ==
    LET c == CandidateKeys(st, i)
        j == CHOOSE x \in 1..Len(c) :
                 IsPopulated(m[c[x]]) /\ \A y \in 1..(x - 1) : ~IsPopulated(m[c[y]])
    IN  m[c[j]].s

\* the k-th populated field in priority order
KthField(m, st, k) ==
    CHOOSE i \in PopulatedFields(m, st) :
        Cardinality({j \in PopulatedFields(m, st) : j <= i}) = k

\* the entries "label: value" of the populated fields, in priority order
ExpectedEntries(m, st) ==
    [k \in 1..Cardinality(PopulatedFields(m, st)) |->
        <<FieldLabel(st, KthField(m, st, k)), ":", " ">>
        \o ChosenValue(m, st, KthField(m, st, k))]

RECURSIVE EntryOffset(_, _)
\* where entry k starts in a text that lays the entries out one after the
\* other with one separator between neighbours
EntryOffset(es, k) == IF k = 1 THEN 0 ELSE EntryOffset(es, k - 1) + Len(es[k - 1]) + 1

\* text is exactly the entries es, in order, separated by single line breaks
LaidOut(text, es) ==
    /\ es # <<>>
    /\ Len(text) = EntryOffset(es, Len(es)) + Len(es[Len(es)])
    /\ \A k \in 1..Len(es) :
          /\ SubSeq(text, EntryOffset(es, k) + 1, EntryOffset(es, k) + Len(es[k])) = es[k]
          /\ k < Len(es) => text[EntryOffset(es, k) + Len(es[k]) + 1] = NL

HasLineBreak(s) == \E i \in 1..Len(s) : s[i] = NL

Labels == {FieldLabel("permit", i) : i \in 1..Len(PermitFields)}
          \cup {FieldLabel("overview", i) : i \in 1..Len(OverviewFields)}

\* the lines of the text that field i accounts for: its labelled line and
\* the unlabelled lines that follow it
FieldLines(text, st, i) ==
    LET ls == Split(text, NL)
    IN  {n \in 1..Len(ls) :
            \E h \in 1..n :
                /\ ls[h] # <<>> /\ ls[h][1] = FieldLabel(st, i)
                /\ \A x \in (h + 1)..n : ls[x] = <<>> \/ ls[x][1] \notin Labels}

FormatDone == formatted.kind # "pending"

-----------------------------------------------------------------------------
(* Claims about the formatter, checked under SpecFormat *)

\* C6: a record of either schema with no non-empty recognized field is
\* formatted to None and the loop body of _load_data adds no document for
\* it; no document with an empty text is ever added to the list.
C6_EmptyRecordNoDocument ==
    FormatDone =>
        /\ PopulatedFields(medicine, source_type) = {} =>
              /\ formatted = None
              /\ record_docs.documents = <<>>
              /\ ~record_docs.raised
        /\ \A d \in 1..Len(record_docs.documents) :
              record_docs.documents[d].text # <<>>

\* a record whose keys are present but hold only null or "" was formatted
C6_Witness ==
    /\ FormatDone
    /\ PopulatedFields(medicine, source_type) = {}
    /\ \E k \in DOMAIN medicine : medicine[k].kind = "none"
    /\ \E k \in DOMAIN medicine : medicine[k] = Str(<<>>)

\* C7 as stated: the lines of the formatted text are exactly the
\* "label: value" lines of the non-empty fields, one line per field, in
\* priority order.
C7_OneLinePerField ==
    (FormatDone /\ PopulatedFields(medicine, source_type) # {}) =>
        /\ formatted.kind = "str"
        /\ Split(formatted.s, NL) = ExpectedEntries(medicine, source_type)

\* C7 as amended: the formatted text is exactly one "label: value" entry per
\* non-empty field, in priority order, separated by single line breaks, with
\* no entry for an absent or empty field; the entries are the lines of the
\* text when no value used holds a line break.
C7_OneEntryPerField ==
    (FormatDone /\ PopulatedFields(medicine, source_type) # {}) =>
        /\ formatted.kind = "str"
        /\ LaidOut(formatted.s, ExpectedEntries(medicine, source_type))
        /\ (\A i \in PopulatedFields(medicine, source_type) :
                ~HasLineBreak(ChosenValue(medicine, source_type, i)))
           => Split(formatted.s, NL) = ExpectedEntries(medicine, source_type)

\* two fields are populated, a third key is present but empty
C7_Witness ==
    /\ FormatDone
    /\ formatted.kind = "str"
    /\ Cardinality(PopulatedFields(medicine, source_type)) = 2
    /\ Len(Split(formatted.s, NL)) = 2

\* the value C8 names for overview field i: that of the lower-case key (the
\* first candidate) when it is populated, else that of the upper-case key
C8Value(m, i) ==
    IF IsPopulated(m[OverviewFields[i].field_names[1]])
    THEN m[OverviewFields[i].field_names[1]].s
    ELSE m[OverviewFields[i].field_names[2]].s

\* the places of the text where a line starts with the label
LabelPositions(text, label) ==
    {p \in 1..Len(text) : text[p] = label /\ (p = 1 \/ text[p - 1] = NL)}

\* the entry "label: val" stands at p and ends with the text or just before
\* the next labelled line
EntryAt(text, p, label, val) ==
    LET e == <<label, ":", " ">> \o val
        q == p + Len(e)
    IN  /\ q - 1 <= Len(text)
        /\ SubSeq(text, p, q - 1) = e
        /\ \/ q = Len(text) + 1
           \/ q + 1 <= Len(text) /\ text[q] = NL /\ text[q + 1] \in Labels

\* field i shows exactly one entry, with the value C8 names, when one of its
\* keys is populated, and no entry otherwise
C8EntryOf(text, m, i) ==
    IF i \in PopulatedFields(m, "overview")
    THEN \E p \in 1..Len(text) :
            /\ LabelPositions(text, OverviewFields[i].label) = {p}
            /\ EntryAt(text, p, OverviewFields[i].label, C8Value(m, i))
    ELSE LabelPositions(text, OverviewFields[i].label) = {}

\* C8 as stated: in the overview schema a field with one populated key shows
\* that key's value, a field with both keys populated shows the value of the
\* first key of its candidate list, and every field accounts for at most one
\* line of the text.
C8_OneLinePerLogicalField ==
    (FormatDone /\ source_type = "overview" /\ formatted.kind = "str") =>
        \A i \in 1..Len(OverviewFields) :
            /\ C8EntryOf(formatted.s, medicine, i)
            /\ Cardinality(FieldLines(formatted.s, "overview", i)) <= 1

\* C8 as amended: the same choice of value, and every field accounts for at
\* most one "label: value" entry of the text; the entry is a single line when
\* the value holds no line break.
C8_OneEntryPerLogicalField ==
    (FormatDone /\ source_type = "overview") =>
        /\ PopulatedFields(medicine, "overview") # {} => formatted.kind = "str"
        /\ formatted.kind = "str" =>
              \A i \in 1..Len(OverviewFields) :
                  /\ C8EntryOf(formatted.s, medicine, i)
                  /\ (i \in PopulatedFields(medicine, "overview")
                      /\ ~HasLineBreak(C8Value(medicine, i)))
                     => Cardinality(FieldLines(formatted.s, "overview", i)) = 1

\* both keys of one overview field are populated, with different values
C8_Witness ==
    /\ FormatDone
    /\ source_type = "overview"
    /\ formatted.kind = "str"
    /\ \E i \in 1..Len(OverviewFields) :
          /\ IsPopulated(medicine[OverviewFields[i].field_names[1]])
          /\ IsPopulated(medicine[OverviewFields[i].field_names[2]])
          /\ medicine[OverviewFields[i].field_names[1]]
                # medicine[OverviewFields[i].field_names[2]]

-----------------------------------------------------------------------------
(* Claims about the enhancer, checked under SpecEnhance *)

\* kw occurs in q
Mentions(q, kw) ==
    \E i \in 1..Len(q) : i + Len(kw) - 1 <= Len(q) /\ SubSeq(q, i, i + Len(kw) - 1) = kw

FocusTexts == {TEXT_focus_side_effect, TEXT_focus_dosage, TEXT_focus_interaction}

\* the category instructions of a prompt, in the order they appear
FocusOf(prompt) == SelectSeq(prompt, LAMBDA tok : tok \in FocusTexts)

EnhanceDone == enhanced.kind # "pending"

\* C9: the enhanced prompt carries at most one category instruction, chosen
\* by first match in the order side effect, then usage or dosage, then
\* interaction or together; a question that names a side effect and a dosage
\* gets the side-effect instruction alone, a question with no keyword gets
\* none, and the instruction, when there is one, ends the prompt.
C9_FirstMatchWins ==
    EnhanceDone =>
        /\ Len(FocusOf(enhanced.s)) <= 1
        /\ FocusOf(enhanced.s) =
              IF Mentions(question, KW_side_effect) THEN <<TEXT_focus_side_effect>>
              ELSE IF Mentions(question, KW_usage) \/ Mentions(question, KW_dosage)
                   THEN <<TEXT_focus_dosage>>
              ELSE IF Mentions(question, KW_interaction) \/ Mentions(question, KW_together)
                   THEN <<TEXT_focus_interaction>>
              ELSE <<>>
        /\ FocusOf(enhanced.s) # <<>> =>
              enhanced.s[Len(enhanced.s)] = FocusOf(enhanced.s)[1]
        /\ FocusOf(enhanced.s) = <<>> =>
              enhanced.s[Len(enhanced.s)] = TEXT_answer_style

\* a question that names a side effect and a dosage was enhanced
C9_Witness ==
    /\ EnhanceDone
    /\ Mentions(question, KW_side_effect)
    /\ Mentions(question, KW_dosage)
    /\ FocusOf(enhanced.s) = <<TEXT_focus_side_effect>>

-----------------------------------------------------------------------------
(* Claims about LLMModule, checked under SpecLLM *)

Asked == last_query # NoQuery
LastQuery == last_query[1]

AllWhitespace(s) == \A i \in 1..Len(s) : s[i] \in Whitespace

\* C1: query never lets an exception of the query engine or of the direct
\* completion escape: when the collaborator raises, query returns the fixed
\* apology text, whatever the question and the OCR context.
C1_QueryNeverRaises ==
    Asked =>
        /\ LastQuery.outcome.kind = "returned"
        /\ LastQuery.reply.kind = "raises" => LastQuery.outcome.value = <<TEXT_apology>>

\* the query engine raised during a query with an OCR context
C1_Witness ==
    /\ Asked
    /\ LastQuery.reply.kind = "raises"
    /\ LastQuery.target = "query_engine"
    /\ LastQuery.ocr_context # None

\* C2: query never returns an empty or all-whitespace string: on the
\* retrieval path and on the direct path alike, an empty or all-whitespace
\* answer is replaced by the fixed fallback text, and any other answer is
\* returned unchanged.
C2_NoEmptyAnswer ==
    (Asked /\ LastQuery.outcome.kind = "returned") =>
        /\ LastQuery.outcome.value # <<>>
        /\ ~AllWhitespace(LastQuery.outcome.value)
        /\ LastQuery.reply.kind = "str" =>
              LastQuery.outcome.value =
                 IF AllWhitespace(LastQuery.reply.s) THEN <<TEXT_fallback>>
                 ELSE LastQuery.reply.s

\* the direct completion gave a whitespace-only answer
C2_Witness ==
    /\ Asked
    /\ LastQuery.target = "llm.complete"
    /\ LastQuery.reply.kind = "str"
    /\ LastQuery.reply.s # <<>>
    /\ AllWhitespace(LastQuery.reply.s)
    /\ LastQuery.outcome.value = <<TEXT_fallback>>

\* a run that found no index directory and got no document from the files
BuiltNothing == llm_state # "unconstructed" /\ init_path = "build" /\ documents = <<>>

\* C3: when no persisted index exists and the source files yield no
\* document, construction completes with no index and no query engine and
\* persists nothing, and every query of the run sends the enhanced prompt to
\* the direct completion; in every run the query engine exists, and is the
\* one queried, exactly when an index exists.
C3_NoDocumentsDirectCompletion ==
    /\ BuiltNothing =>
          /\ llm_state = "ready"
          /\ index = NoIndex
          /\ query_engine = NoEngine
          /\ persist_count = 0
          /\ ~index_dir.exists
          /\ Asked =>
                /\ LastQuery.target = "llm.complete"
                /\ LastQuery.prompt =
                      enhance_question(LastQuery.question, LastQuery.ocr_context)
    /\ llm_state = "ready" =>
          /\ query_engine.kind = "engine" <=> index.kind = "index"
          /\ Asked => (LastQuery.target = "query_engine" <=> index.kind = "index")

\* a source file was there but gave no document, and a query was made
C3_Witness ==
    /\ BuiltNothing
    /\ Asked
    /\ e_file.kind = "ok" /\ e_file.medicines # <<>>
    /\ LastQuery.target = "llm.complete"

\* C4: a run that finds the persisted index directory loads the index from
\* it, opens no source file and does not rewrite the directory, whatever the
\* source files hold.
C4_IndexReuse ==
    [][(llm_state = "unconstructed" /\ llm_state' # "unconstructed"
        /\ api_key = "set" /\ index_dir.exists)
       => /\ init_path' = "load"
          /\ opened' = {}
          /\ documents' = <<>>
          /\ persist_count' = 0
          /\ index_dir' = index_dir
          /\ llm_state' = "ready" => index' = IndexOf(index_dir.docs)]_vars

\* an index was loaded that differs from what the source files would give
C4_Witness ==
    /\ llm_state = "ready"
    /\ init_path = "load"
    /\ opened = {}
    /\ load_data(e_file, n_file) # <<>>
    /\ index.docs # load_data(e_file, n_file)

\* the file cannot be used: it is missing or does not hold a JSON object
Unusable(f) == f.kind # "ok"

\* C5: in a fresh build a source file that is missing or does not parse
\* never aborts the build: _load_data still returns the documents of the
\* other file, and retrieval is off only when both files together give no
\* document.
C5_BadFileDoesNotAbort ==
    (llm_state # "unconstructed" /\ init_path = "build") =>
        /\ Unusable(e_file) => documents = load_file(<<>>, n_file, "overview")
        /\ Unusable(n_file) => documents = load_file(<<>>, e_file, "permit")
        /\ llm_state = "failed" => documents # <<>>
        /\ llm_state = "ready" =>
              (query_engine = NoEngine <=> documents = <<>>)

\* the first file does not parse, the second gives a document, retrieval is on
C5_Witness ==
    /\ llm_state = "ready"
    /\ init_path = "build"
    /\ e_file.kind = "malformed"
    /\ documents # <<>>
    /\ query_engine.kind = "engine"

-----------------------------------------------------------------------------
(* Claims about the menu loop, checked under Spec *)

\* C10: no Exception raised while a menu command is handled ends the loop:
\* it is caught in run, and after the pause the menu is shown again; the loop
\* ends only on the command Q or on a keyboard interrupt.
C10_LoopSurvivesExceptions ==
    [][/\ (pc \in TryPcs /\ pc' \notin TryPcs) =>
             \/ pc' = "pause"
             \/ pc' = "exited" /\ exit_cause' \in {"quit", "interrupt"}
       /\ (pc \in LoopPcs /\ pc' = "exited" /\ exit_cause' = "quit") =>
             pc = "menu" /\ command' = "Q"
       /\ (pc = "pause" /\ pc' # "pause") =>
             \/ pc' = "menu" /\ last_event' = "recovered"
             \/ pc' = "exited" /\ exit_cause' = "interrupt"
       /\ pc \in LoopPcs => pc' \in LoopPcs \cup {"exited"}]_vars

\* the menu is up again after an exception that was raised with an OCR
\* context in place
C10_Witness ==
    /\ pc = "menu"
    /\ last_event = "recovered"
    /\ ocr_context # None

-----------------------------------------------------------------------------
(* Claims about the question that was not recognized *)

\* C11: when voice.listen returns nothing in a query interaction, the
\* handler does not call llm.query in that interaction, speaks the fixed
\* "could not recognize" message and returns to the menu, with no exception
\* and the loop still running.
C11_NoQuestionNoQuery ==
    [][\A r \in Recordings :
          (~Truthy(listen(r)) /\ QueryListen(listen(r)))
          => /\ pc' = "menu"
             /\ last_query = NoQuery
             /\ last_query' = NoQuery
             /\ last_spoken' = MSG_no_input
             /\ exit_cause' = "none"]_vars

\* the menu after an interaction whose question was not recognized
C11_Witness ==
    /\ pc = "menu"
    /\ command = "S"
    /\ last_spoken = MSG_no_input
    /\ last_query = NoQuery
    /\ exit_cause = "none"

-----------------------------------------------------------------------------
(* Claims about the text extraction *)

OcrDone == ocr_return # NotCalled

\* (non-empty text, non-empty detail list) or (nothing, nothing)
ProperPair(r) ==
    /\ r.shape = "pair"
    /\ \/ Truthy(r.text) /\ r.details # <<>>
       \/ r.text = None /\ r.details = <<>>

\* C12: for every image and every shape of the engine's result,
\* extract_text_from_image and extract_text_with_preprocessing return either
\* (non-empty text, non-empty detail list) or (nothing, nothing): never a
\* value that is no pair, never a half-filled pair, never an exception.
C12_AlwaysAPair ==
    OcrDone => ProperPair(ocr_return.direct) /\ ProperPair(ocr_return.retried)

-----------------------------------------------------------------------------
(* Claims about the start of the program *)

NoCredential == api_key \in {"unset", "empty"}

\* C13: with OPENAI_API_KEY unset or empty the start is fatal: LLMModule()
\* raises before an index is loaded, built or persisted and before a source
\* file is opened, MedicineAssistant() raises it again, and the menu loop is
\* never entered.
C13_NoCredentialIsFatal ==
    NoCredential
    => /\ pc \in {"start", "declined", "fatal"}
       /\ llm_state \in {"unconstructed", "failed"}
       /\ index = NoIndex
       /\ query_engine = NoEngine
       /\ init_path = "none"
       /\ opened = {}
       /\ persist_count = 0
       /\ last_query = NoQuery

\* the construction of LLMModule was reached without a credential and failed
C13_Witness ==
    /\ api_key = "empty"
    /\ llm_state = "failed"
    /\ pc = "fatal"

-----------------------------------------------------------------------------
(* Claims about the documents of a fresh build *)

FreshBuild == llm_state # "unconstructed" /\ init_path = "build"

\* the records of a file for which the formatter returns text, in file order
TextRecords(f, st) ==
    SelectSeq(f.medicines, LAMBDA m : Truthy(format_medicine_data(m, st)))

\* the documents of the list that carry the source tag st, in list order
DocumentsOf(st) == SelectSeq(documents, LAMBDA d : d.source = st)

\* one document per record with text, with the record's text, and with the
\* drug name cut to ItemNameMax when the record has one
OneDocumentPerTextRecord(f, st) ==
    LET recs == TextRecords(f, st)
        docs == DocumentsOf(st)
    IN  /\ Len(docs) = Len(recs)
        /\ \A k \in 1..Len(recs) :
              /\ docs[k].text = format_medicine_data(recs[k], st).s
              /\ item_name_expr(recs[k], st).kind = "str"
                 => docs[k].item_name = Truncate(item_name_expr(recs[k], st).s, ItemNameMax)

\* C15: in a fresh build every record of a readable, well-formed source file
\* for which the formatter returns text contributes exactly one document to
\* the list the index is built from, whatever the other records and whatever
\* its drug-name field holds (a null included), with the matching source tag
\* and the drug name cut to 100 characters.
C15_EveryTextRecordIndexed ==
    FreshBuild
    => /\ e_file.kind = "ok" => OneDocumentPerTextRecord(e_file, "permit")
       /\ n_file.kind = "ok" => OneDocumentPerTextRecord(n_file, "overview")

-----------------------------------------------------------------------------
(* Claims about the OCR context *)

\* the context the OCR part of handle_medicine_query extracts from the image
ExtractedContext(image_exists, first, preprocessed, second) ==
    LET r == extract_text_with_preprocessing(image_exists, first, preprocessed, second)
    IN  IF Truthy(r.text) THEN format_for_llm(r.text) ELSE None

\* C16: the OCR context is one per question: the context handed to llm.query
\* is absent or was extracted from the image in the same interaction, and
\* whenever control is back at the menu the stored context is cleared, so a
\* context of an earlier interaction is never used for a later question.
C16_ContextIsPerQuestion ==
    [][/\ (pc \in LoopPcs /\ pc' = "menu") => ocr_context' = None
       /\ \A user_input \in {"S", "other"}, image_exists, preprocessed \in BOOLEAN,
             first, second \in OcrResults :
             (QueryOcr(user_input, image_exists, first, preprocessed, second)
              /\ ocr_context' # None)
             => /\ user_input = "S"
                /\ image_exists
                /\ ocr_context' = ExtractedContext(image_exists, first, preprocessed, second)
       /\ (pc = "query_llm" /\ last_query' # NoQuery)
             => last_query'[1].ocr_context = ocr_context]_vars

-----------------------------------------------------------------------------
(* Claims about the writers of the index *)

Assigned == <<index, query_engine, llm_client>>

\* C17: within a run the index, the query engine and the language-model
\* client are assigned by the construction of LLMModule only, which is over
\* before the first query; no query and no later operation assigns them
\* again; and the query engine is there exactly when the index is.
C17_IndexReadOnlyAfterInit ==
    [][/\ (run_no' = run_no /\ Assigned' # Assigned)
             => llm_state = "unconstructed" /\ last_query = NoQuery
       /\ (run_no' = run_no /\ last_query' # last_query)
             => llm_state = "ready" /\ llm_state' = "ready" /\ Assigned' = Assigned
       /\ llm_state' # "failed"
             => /\ (query_engine' = NoEngine) <=> (index' = NoIndex)
                /\ query_engine' # NoEngine => query_engine'.index = index']_vars

\* a query was answered by a module that holds an index and its engine
C17_Witness ==
    /\ llm_state = "ready"
    /\ last_query # NoQuery
    /\ index # NoIndex
    /\ query_engine = EngineOf(index)
    /\ llm_client = "client"

-----------------------------------------------------------------------------
(* Claims about the confidence filter *)

\* the confidence of region i: its score, or 1.0 when none is reported
RegionConfidence(result, i) ==
    IF i <= Len(result.rec_scores) THEN result.rec_scores[i] ELSE DefaultConfidencePct

\* region i has text left after stripping and a confidence of 30% or more
QualifiesAtLeastCutoff(result, i) ==
    /\ result.rec_texts[i].kind = "str"
    /\ Strip(result.rec_texts[i].s) # <<>>
    /\ RegionConfidence(result, i) >= ConfidenceCutoffPct

\* the regions that qualify, in order, as detail entries
QualifyingRegions(result) ==
    LET idx == SelectSeq([i \in 1..Len(result.rec_texts) |-> i],
                         LAMBDA i : QualifiesAtLeastCutoff(result, i))
    IN  [k \in 1..Len(idx) |->
            [text |-> Strip(result.rec_texts[idx[k]].s),
             confidence |-> RegionConfidence(result, idx[k])]]

\* C18: extract_text_from_image uses a recognized region, in the combined
\* text and in the detail list, if and only if its stripped text is non-empty
\* and its confidence is 30% or higher; a region with confidence exactly 0.3
\* is used, and a region without a score counts as confidence 1.0.
C18_CutoffInclusive ==
    (OcrDone /\ ocr_call.img_exists /\ ocr_call.first.shape = "dict"
     /\ ocr_call.first.rec_texts # <<>>)
    => LET regions == QualifyingRegions(ocr_call.first)
       IN  /\ ocr_return.direct.details = regions
           /\ regions # <<>>
              => ocr_return.direct.text =
                    Str(Join([k \in 1..Len(regions) |-> regions[k].text], " "))

====
